---- MODULE Spec2Model ----
(***************************************************************************)
(* docusaurus-plugin-openapi, src/index.ts: the plugin's lifecycle hooks   *)
(* loadContent, contentLoaded and routesLoaded as a state machine.         *)
(*                                                                         *)
(* Strings that the code builds or compares (route paths, file names) are  *)
(* sequences of characters, so that concatenation and normalizeUrl are     *)
(* computed, not assumed.  One behaviour is one build.                     *)
(***************************************************************************)
EXTENDS Integers, Sequences, FiniteSets, TLC

\* ------------------------------------------------------------------ bounds
\* the build up to contentLoaded's return (Spec)
MaxSections == 2
MaxItems == 2
\* the build up to routesLoaded's return (SpecRoutes)
MaxRoutedItems == 1
MaxOtherRoutes == 2

\* ----------------------------------------------------------------- strings
Str_site == <<"s", "i", "t", "e", "-">>
Str_dash == <<"-">>
Str_json == <<".", "j", "s", "o", "n">>
Str_descriptionMd == <<"-", "d", "e", "s", "c", "r", "i", "p", "t", "i", "o", "n", ".", "m", "d">>
Str_route == <<":", "r", "o", "u", "t", "e">>
Str_slash == <<"/">>
Str_empty == <<>>

SeqsUpTo(S, n) == UNION {[1..k -> S] : k \in 0..n}

RECURSIVE StripLeadingSlashes(_)
StripLeadingSlashes(s) ==
    IF s # <<>> /\ Head(s) = "/" THEN StripLeadingSlashes(Tail(s)) ELSE s

RECURSIVE StripTrailingSlashes(_)
StripTrailingSlashes(s) ==
    IF s # <<>> /\ s[Len(s)] = "/"
    THEN StripTrailingSlashes(SubSeq(s, 1, Len(s) - 1))
    ELSE s

\* str.replace(/\/+/, "/") over the whole string: every run of slashes becomes one
RECURSIVE DedupeSlashes(_)
DedupeSlashes(s) ==
    IF Len(s) < 2 THEN s
    ELSE IF s[1] = "/" /\ s[2] = "/" THEN DedupeSlashes(Tail(s))
    ELSE <<s[1]>> \o DedupeSlashes(Tail(s))

RECURSIVE JoinSlash(_)
JoinSlash(parts) ==
    IF parts = <<>> THEN <<>>
    ELSE IF Len(parts) = 1 THEN parts[1]
    ELSE parts[1] \o Str_slash \o JoinSlash(Tail(parts))

\* one component of normalizeUrl's loop: leading slashes go for every component
\* but the first, trailing slashes go for every component but the last, where a
\* run of them becomes one
UrlComponent(urls, i) ==
    LET c0 == urls[i]
        c1 == IF i > 1 THEN StripLeadingSlashes(c0) ELSE c0
    IN  IF i < Len(urls) THEN StripTrailingSlashes(c1)
        ELSE IF c1 # <<>> /\ c1[Len(c1)] = "/"
             THEN StripTrailingSlashes(c1) \o Str_slash
             ELSE c1

RECURSIVE UrlComponents(_, _)
UrlComponents(urls, i) ==
    IF i > Len(urls) THEN <<>>
    ELSE IF urls[i] = <<>> THEN UrlComponents(urls, i + 1)
    ELSE <<UrlComponent(urls, i)>> \o UrlComponents(urls, i + 1)

\* @docusaurus/utils normalizeUrl on paths without protocol, query or hash
normalizeUrl(urls) == DedupeSlashes(JoinSlash(UrlComponents(urls, 1)))

\* @docusaurus/utils docuHash: a file-safe name that determines its argument
docuHash(str) == <<"docuHash:">> \o str

\* JSON.stringify / JSON.parse: the text is not the value, parsing recovers it
JSONStringify(value) == <<"json", value>>
JSONParse(text) == text[2]

\* ----------------------------------------------------------------- options
apiLayoutComponent == "@theme/ApiPage"
apiItemComponent == "@theme/ApiItem"
sidebarLabel == "summary"
name == <<"docusaurus-plugin-openapi">>

RouteBasePaths == {Str_empty, Str_slash, <<"a", "p", "i">>, <<"/", "a", "p", "i">>}
BaseUrls == {Str_slash, <<"/", "b", "/">>}
RootBaseUrl == {Str_slash}
OpenapiPaths == {"", "openapi.yaml"}

\* ------------------------------------------------------------ parsed content
\* the items loadOpenapi can return: hash identifiers, permalinks and
\* descriptions each repeat and each differ between two of them
ApiItems ==
    { [hashId |-> <<"h", "1">>, permalink |-> "/api/p1", summary |-> "s1",
       description |-> "d1", deprecated |-> FALSE],
      [hashId |-> <<"h", "1">>, permalink |-> "/api/p1", summary |-> "s1",
       description |-> "d2", deprecated |-> TRUE],
      [hashId |-> <<"h", "2">>, permalink |-> "/api/p2", summary |-> "s2",
       description |-> "d1", deprecated |-> FALSE],
      [hashId |-> <<"h", "1">>, permalink |-> "/api/p2", summary |-> "s1",
       description |-> "d2", deprecated |-> FALSE] }

RECURSIVE SumSeq(_)
SumSeq(s) == IF s = <<>> THEN 0 ELSE Head(s) + SumSeq(Tail(s))

\* the sections whose items, read in order, are `flat`, cut as `sizes` says;
\* the section at position n is titled <<"section", n>>
RECURSIVE Cut(_, _, _)
Cut(flat, sizes, n) ==
    IF sizes = <<>> THEN <<>>
    ELSE <<[title |-> <<"section", n>>, items |-> SubSeq(flat, 1, Head(sizes))]>>
         \o Cut(SubSeq(flat, Head(sizes) + 1, Len(flat)), Tail(sizes), n + 1)

\* what loadOpenapi can return: ApiSection[], at most maxSections sections
\* holding at most maxItems items in all
ApiSectionLists(maxSections, maxItems) ==
    UNION { { Cut(flat, sizes, 1) :
              sizes \in {z \in SeqsUpTo(0..Len(flat), maxSections) :
                           SumSeq(z) = Len(flat)} } :
            flat \in SeqsUpTo(ApiItems, maxItems) }

Null == [null |-> TRUE]

\* ------------------------------------------------------------------- state
VARIABLES
    routeBasePath,    \* options.routeBasePath
    baseUrl,          \* context.baseUrl
    openapiPath,      \* options.openapiPath
    fileExists,       \* fs.existsSync(openapiPath)
    specFile,         \* what loadOpenapi makes of the file at openapiPath
    pc,               \* where the build is
    content,          \* what loadContent returned
    parserCalls,      \* calls of loadOpenapi
    createDataCalls,  \* calls of actions.createData
    task,             \* per item, in input order: where its async function is
    result,           \* per item: the route its promise fulfilled with
    completed,        \* the items in the order their promises fulfilled
    files,            \* the generated-files directory: path -> content
    aggregate,        \* the aggregate createData call: Null, or its name, content, state
    added,            \* the routes passed to actions.addRoute
    routesBefore,     \* the list routesLoaded was called with
    routes            \* the same list, as routesLoaded leaves it

vars ==
    <<routeBasePath, baseUrl, openapiPath, fileExists, specFile, pc, content, parserCalls,
      createDataCalls, task, result, completed, files, aggregate, added,
      routesBefore, routes>>

config == <<routeBasePath, baseUrl, openapiPath, fileExists, specFile>>

\* a build starts: the options, the site's baseUrl and the spec file are what
\* they are; `parsed` are the section lists the file may hold, `baseUrls` the
\* site's possible base URLs
InitWith(parsed, baseUrls) ==
    /\ routeBasePath \in RouteBasePaths
    /\ baseUrl \in baseUrls
    /\ openapiPath \in OpenapiPaths
    /\ fileExists \in BOOLEAN
    /\ (openapiPath = "" => ~fileExists)
    /\ IF fileExists THEN specFile \in parsed ELSE specFile = Null
    /\ pc = "start"
    /\ content = Null
    /\ parserCalls = 0
    /\ createDataCalls = 0
    /\ task = <<>>
    /\ result = <<>>
    /\ completed = <<>>
    /\ files = <<>>
    /\ aggregate = Null
    /\ added = <<>>
    /\ routesBefore = <<>>
    /\ routes = <<>>

\* ------------------------------------------------------------- loadContent
\* if (!openapiPath || !fs.existsSync(openapiPath)) return null;
\* faulty variant: the guard without fs.existsSync
NoSpecPath == openapiPath = ""

NoSpecFile == IF openapiPath = "" THEN TRUE ELSE ~fileExists

LoadContentNull ==
    /\ pc = "start"
    /\ NoSpecFile
    /\ content' = Null
    /\ pc' = "loaded"
    /\ UNCHANGED <<config, parserCalls, createDataCalls, task, result, completed,
                   files, aggregate, added, routesBefore, routes>>

\* const openapiData = await loadOpenapi(...); return { openapiData };
LoadContentParsed ==
    /\ pc = "start"
    /\ ~NoSpecFile
    /\ parserCalls' = parserCalls + 1
    /\ content' = [openapiData |-> specFile]
    /\ pc' = "loaded"
    /\ UNCHANGED <<config, createDataCalls, task, result, completed, files,
                   aggregate, added, routesBefore, routes>>

\* loadOpenapi rejects (the file is gone, or is no OpenAPI document):
\* loadContent rejects and the host fails the build
LoadContentThrows ==
    /\ pc = "start"
    /\ ~NoSpecFile
    /\ parserCalls' = parserCalls + 1
    /\ pc' = "failed"
    /\ UNCHANGED <<config, content, createDataCalls, task, result, completed,
                   files, aggregate, added, routesBefore, routes>>

\* ----------------------------------------------------------- contentLoaded
\* if (!content || Object.keys(content.openapiData).length === 0) return;
\* faulty variant: the guard without the test for zero sections
NullContent == content = Null

NoContent == IF content = Null THEN TRUE ELSE Len(content.openapiData) = 0

\* the sidebar: one category per section, one link per item
SidebarItem(item) ==
    [href |-> item.permalink, label |-> item[sidebarLabel], type |-> "link",
     deprecated |-> item.deprecated]

SidebarItems(section) ==
    [k \in 1..Len(section.items) |-> SidebarItem(section.items[k])]

\* faulty variant: a sidebar that leaves out the sections without items
NonEmptySections(openapiData) ==
    SelectSeq(openapiData, LAMBDA section : Len(section.items) > 0)

SidebarOfNonEmpty(openapiData) ==
    [s \in 1..Len(NonEmptySections(openapiData)) |->
        [collapsed |-> TRUE, type |-> "category",
         label |-> NonEmptySections(openapiData)[s].title,
         items |-> SidebarItems(NonEmptySections(openapiData)[s])]]

Sidebar(openapiData) ==
    [s \in 1..Len(openapiData) |->
        [collapsed |-> TRUE, type |-> "category", label |-> openapiData[s].title,
         items |-> SidebarItems(openapiData[s])]]

\* openapiData.map((section) => section.items.map(...)).flat()
RECURSIVE Flat(_)
Flat(openapiData) ==
    IF openapiData = <<>> THEN <<>>
    ELSE Head(openapiData).items \o Flat(Tail(openapiData))

Items == IF content = Null THEN <<>> ELSE Flat(content.openapiData)

pageId(item) == Str_site \o routeBasePath \o Str_dash \o item.hashId
JsonName(item) == docuHash(pageId(item)) \o Str_json
MarkdownName(item) == docuHash(pageId(item)) \o Str_descriptionMd

\* createData resolves to path.join(dataDir, name)
dataPath(fileName) == <<"generated/">> \o name \o Str_slash \o fileName

\* createData: fs.writeFile(path.join(dataDir, name), content); the file now
\* holds this content, whatever it held
Write(fs, fileName, text) ==
    [n \in DOMAIN fs \cup {dataPath(fileName)} |->
        IF n = dataPath(fileName) THEN text ELSE fs[n]]

ItemRoute(item) ==
    [path |-> item.permalink,
     component |-> apiItemComponent,
     exact |-> TRUE,
     modules |-> [openapi |-> dataPath(JsonName(item)),
                  content |-> [import |-> TRUE, path |-> dataPath(MarkdownName(item))]]]

\* faulty variant: the items' rejections are swallowed
PromiseAllSwallowing(t) ==
    IF \A i \in DOMAIN t : t[i] = "done" THEN "fulfilled" ELSE "pending"

\* Promise.all over the items' promises
PromiseAll(t) ==
    IF \E i \in DOMAIN t : t[i] \in {"jsonFailed", "mdFailed"} THEN "rejected"
    ELSE IF \A i \in DOMAIN t : t[i] = "done" THEN "fulfilled"
    ELSE "pending"

\* the early return
ContentLoadedNoContent ==
    /\ pc = "loaded"
    /\ NoContent
    /\ pc' = "contentDone"
    /\ UNCHANGED <<config, content, parserCalls, createDataCalls, task, result,
                   completed, files, aggregate, added, routesBefore, routes>>

\* the synchronous part: every item's async function runs to its first await,
\* which is its first createData call
ContentLoadedStart ==
    /\ pc = "loaded"
    /\ ~NoContent
    /\ task' = [i \in 1..Len(Items) |-> "json"]
    /\ result' = [i \in 1..Len(Items) |-> Null]
    /\ createDataCalls' = createDataCalls + Len(Items)
    /\ pc' = "awaitAll"
    /\ UNCHANGED <<config, content, parserCalls, completed, files, aggregate,
                   added, routesBefore, routes>>

\* what contentLoaded does when an item's promise settles while it awaits them
AfterSettle(t) ==
    IF pc = "awaitAll" /\ PromiseAll(t) = "rejected" THEN "failed" ELSE pc

\* item i's JSON file is written; its function goes on to the second createData
JsonWritten(i) ==
    /\ task[i] = "json"
    /\ files' = Write(files, JsonName(Items[i]), JSONStringify(Items[i]))
    /\ task' = [task EXCEPT ![i] = "md"]
    /\ createDataCalls' = createDataCalls + 1
    /\ UNCHANGED <<config, pc, content, parserCalls, result, completed, aggregate,
                   added, routesBefore, routes>>

\* item i's description file is written; its promise fulfils with its route
MarkdownWritten(i) ==
    /\ task[i] = "md"
    /\ files' = Write(files, MarkdownName(Items[i]), Items[i].description)
    /\ task' = [task EXCEPT ![i] = "done"]
    /\ result' = [result EXCEPT ![i] = ItemRoute(Items[i])]
    /\ completed' = Append(completed, i)
    /\ UNCHANGED <<config, pc, content, parserCalls, createDataCalls, aggregate,
                   added, routesBefore, routes>>

\* a createData call of item i rejects: its promise rejects, nothing catches it
ItemWriteFails(i) ==
    /\ task[i] \in {"json", "md"}
    /\ task' = [task EXCEPT ![i] = IF task[i] = "json" THEN "jsonFailed" ELSE "mdFailed"]
    /\ pc' = AfterSettle(task')
    /\ UNCHANGED <<config, content, parserCalls, createDataCalls, result, completed,
                   files, aggregate, added, routesBefore, routes>>

\* faulty variant: the routes collected as the promises fulfil
routesAsCompleted == [k \in 1..Len(completed) |-> result[completed[k]]]

\* const routes = await Promise.all(promises): the values in the promises' order
awaitedRoutes == result

\* faulty variant: reduce without its initial value, the first route is the
\* accumulator and gets no entry
permalinkToSidebarFromSecond(rs) ==
    [p \in {rs[i].path : i \in 2..Len(rs)} |-> "sidebar"]

\* routes.reduce((acc, item) => { acc[item.path] = "sidebar"; return acc }, {})
RECURSIVE permalinkToSidebar(_)
permalinkToSidebar(rs) ==
    IF rs = <<>> THEN <<>>
    ELSE LET acc == permalinkToSidebar(SubSeq(rs, 1, Len(rs) - 1))
             key == rs[Len(rs)].path
         IN  [p \in DOMAIN acc \cup {key} |-> IF p = key THEN "sidebar" ELSE acc[p]]

apiBaseRoute == normalizeUrl(<<baseUrl, routeBasePath>>)
basePath == IF apiBaseRoute = Str_slash THEN Str_empty ELSE apiBaseRoute
docsBaseMetadataName == docuHash(normalizeUrl(<<apiBaseRoute, Str_route>>)) \o Str_json

docsBaseMetadata(rs) ==
    JSONStringify([docsSidebars |-> [sidebar |-> Sidebar(content.openapiData)],
                   permalinkToSidebar |-> permalinkToSidebar(rs)])

\* Promise.all fulfilled: contentLoaded goes on to the aggregate createData call
AggregateIssued ==
    /\ pc = "awaitAll"
    /\ PromiseAll(task) = "fulfilled"
    /\ aggregate' = [name |-> docsBaseMetadataName,
                     text |-> docsBaseMetadata(awaitedRoutes),
                     routes |-> awaitedRoutes,
                     state |-> "pending"]
    /\ createDataCalls' = createDataCalls + 1
    /\ pc' = "awaitAggregate"
    /\ UNCHANGED <<config, content, parserCalls, task, result, completed, files,
                   added, routesBefore, routes>>

AggregateWritten ==
    /\ pc = "awaitAggregate"
    /\ aggregate.state = "pending"
    /\ files' = Write(files, aggregate.name, aggregate.text)
    /\ aggregate' = [aggregate EXCEPT !.state = "written"]
    /\ UNCHANGED <<config, pc, content, parserCalls, createDataCalls, task, result,
                   completed, added, routesBefore, routes>>

AggregateWriteFails ==
    /\ pc = "awaitAggregate"
    /\ aggregate.state = "pending"
    /\ aggregate' = [aggregate EXCEPT !.state = "failed"]
    /\ pc' = "failed"
    /\ UNCHANGED <<config, content, parserCalls, createDataCalls, task, result,
                   completed, files, added, routesBefore, routes>>

\* faulty variant: createData without await
AggregateNotAwaited == aggregate.state \in {"pending", "written"}

\* const docsBaseMetadataPath = await createData(...): on, once it resolved
AggregateAwaited == aggregate.state = "written"

AddRoute ==
    /\ pc = "awaitAggregate"
    /\ AggregateAwaited
    /\ added' = Append(added,
                       [path |-> basePath,
                        exact |-> FALSE,
                        component |-> apiLayoutComponent,
                        routes |-> aggregate.routes,
                        modules |-> [docsMetadata |-> dataPath(aggregate.name)]])
    /\ pc' = "contentDone"
    /\ UNCHANGED <<config, content, parserCalls, createDataCalls, task, result,
                   completed, files, aggregate, routesBefore, routes>>

\* ------------------------------------------------------------ routesLoaded
homePageDocsRoutePath == IF routeBasePath = Str_empty THEN Str_slash ELSE routeBasePath

\* delete routes[i] leaves an empty slot: the list keeps its length
Hole == [empty |-> TRUE]

\* routes.filter(...): empty slots are skipped
homeDocsRoutes(rs) ==
    {i \in DOMAIN rs : rs[i] # Hole /\ rs[i].path = homePageDocsRoutePath}

\* faulty variant: findIndex on the component alone
IsLayoutRoute(route) == route.component = apiLayoutComponent

IsDocsHomePageRoute(route) ==
    route.component = apiLayoutComponent /\ route.path = homePageDocsRoutePath

\* routes.findIndex(...): the first match, -1 when there is none
docsHomePageRouteIndex(rs) ==
    LET hits == {i \in DOMAIN rs : IsDocsHomePageRoute(rs[i])}
    IN  IF hits = {} THEN -1 ELSE (CHOOSE i \in hits : \A j \in hits : i <= j) - 1

\* faulty variant: length > 2
HomePathCollidesTwice(rs) == Cardinality(homeDocsRoutes(rs)) > 2

\* if (homeDocsRoutes.length > 1)
HomePathCollides(rs) == Cardinality(homeDocsRoutes(rs)) > 1

\* the list after routesLoaded: delete routes[-1] deletes nothing
RoutesLoadedResult(rs) ==
    IF HomePathCollides(rs)
    THEN LET index == docsHomePageRouteIndex(rs)
         IN  [i \in DOMAIN rs |-> IF i - 1 = index THEN Hole ELSE rs[i]]
    ELSE rs

\* the routes the other plugins of the site registered
OtherPaths == {homePageDocsRoutePath, basePath, <<"/", "b", "l", "o", "g">>}
OtherRoutes ==
    [path : OtherPaths, exact : {TRUE}, component : {apiLayoutComponent, "@theme/Page"},
     routes : {<<>>}, modules : {[docsMetadata |-> <<>>]}]

InsertAt(s, k, xs) == SubSeq(s, 1, k) \o xs \o SubSeq(s, k + 1, Len(s))

\* the host calls routesLoaded once, with every plugin's routes in one list
RoutesLoaded ==
    /\ pc = "contentDone"
    /\ \E others \in SeqsUpTo(OtherRoutes, MaxOtherRoutes) :
       \E k \in 0..Len(others) :
          /\ routesBefore' = InsertAt(others, k, added)
          /\ routes' = RoutesLoadedResult(routesBefore')
    /\ pc' = "routesDone"
    /\ UNCHANGED <<config, content, parserCalls, createDataCalls, task, result,
                   completed, files, aggregate, added>>

\* ------------------------------------------------------------------- build
ContentLoaded ==
    \/ ContentLoadedNoContent
    \/ ContentLoadedStart
    \/ \E i \in DOMAIN task : JsonWritten(i)
    \/ \E i \in DOMAIN task : MarkdownWritten(i)
    \/ \E i \in DOMAIN task : ItemWriteFails(i)
    \/ AggregateIssued
    \/ AggregateWritten
    \/ AggregateWriteFails
    \/ AddRoute

\* one build, up to contentLoaded's return
Next ==
    \/ LoadContentNull
    \/ LoadContentParsed
    \/ LoadContentThrows
    \/ ContentLoaded

Init == InitWith(ApiSectionLists(MaxSections, MaxItems), RootBaseUrl)

Spec == Init /\ [][Next]_vars

\* one build, up to routesLoaded's return
NextRoutes ==
    \/ LoadContentNull
    \/ LoadContentParsed
    \/ LoadContentThrows
    \/ ContentLoaded
    \/ RoutesLoaded

InitRoutes == InitWith(ApiSectionLists(1, MaxRoutedItems), BaseUrls)

SpecRoutes == InitRoutes /\ [][NextRoutes]_vars

\* ------------------------------------------------------------------ claims
Returned == pc \in {"contentDone", "routesDone"}
HasSections == content # Null /\ Len(content.openapiData) > 0
Range(f) == {f[i] : i \in DOMAIN f}

\* what the aggregate route's metadata module holds
DocsMetadata == JSONParse(files[added[1].modules.docsMetadata])

\* the position, in the registered sub-routes, of item k of section s
Position(openapiData, s, k) ==
    SumSeq([j \in 1..(s - 1) |-> Len(openapiData[j].items)]) + k

\* C1: when contentLoaded has returned on N >= 1 sections holding k1..kN items,
\* addRoute was called exactly once, the route it was given carries k1+...+kN
\* sub-routes, and the sidebar in the aggregate file has N categories in the
\* sections' order, the i-th labelled as section i and holding ki links, in the
\* order of that section's items.
C1_OneAggregateRoute ==
    (Returned /\ HasSections) =>
        LET openapiData == content.openapiData
            sidebar == DocsMetadata.docsSidebars.sidebar
        IN  /\ Len(added) = 1
            /\ Len(added[1].routes) =
                   SumSeq([s \in 1..Len(openapiData) |-> Len(openapiData[s].items)])
            /\ Len(sidebar) = Len(openapiData)
            /\ \A s \in 1..Len(openapiData) :
                  /\ sidebar[s].type = "category"
                  /\ sidebar[s].label = openapiData[s].title
                  /\ Len(sidebar[s].items) = Len(openapiData[s].items)
                  /\ \A k \in 1..Len(openapiData[s].items) :
                        /\ sidebar[s].items[k].type = "link"
                        /\ sidebar[s].items[k].href = openapiData[s].items[k].permalink

C1_Witness ==
    /\ pc = "contentDone"
    /\ HasSections
    /\ Len(content.openapiData) = 2
    /\ Len(content.openapiData[1].items) = 0
    /\ Len(content.openapiData[2].items) = 2
    /\ Len(added) = 1

\* the routes at the home base path, empty slots aside
AtHome(rs) == {i \in DOMAIN rs : rs[i] # Hole /\ rs[i].path = homePageDocsRoutePath}

\* C2: after routesLoaded, if two routes of the list it was given were at the
\* home base path and one of them was the route contentLoaded registered, one
\* route is left at that path; if one route was at that path, the list is as
\* it was.
C2_HomeCollision ==
    pc = "routesDone" =>
        /\ (/\ Cardinality(AtHome(routesBefore)) = 2
            /\ \E i \in AtHome(routesBefore) : routesBefore[i] \in Range(added))
           => Cardinality(AtHome(routes)) = 1
        /\ Cardinality(AtHome(routesBefore)) = 1 => routes = routesBefore

C2_Witness ==
    /\ pc = "routesDone"
    /\ Cardinality(AtHome(routesBefore)) = 2
    /\ \E i \in AtHome(routesBefore) : routesBefore[i] \in Range(added)
    /\ \E i \in AtHome(routesBefore) : routesBefore[i].component # apiLayoutComponent

\* C3: when contentLoaded has returned, for every sub-route it registered, the
\* file the route's openapi module names holds the JSON of an item whose
\* description is what the file the route's content module names holds.
C3_ArtifactsConsistent ==
    Returned =>
        \A a \in DOMAIN added : \A i \in DOMAIN added[a].routes :
            LET route == added[a].routes[i]
            IN  /\ route.modules.openapi \in DOMAIN files
                /\ route.modules.content.path \in DOMAIN files
                /\ JSONParse(files[route.modules.openapi]).description
                       = files[route.modules.content.path]

\* C4, as claimed: when contentLoaded has returned, the lookup in the aggregate
\* file has as many entries as the aggregate route has sub-routes, each "sidebar".
C4_OneEntryPerRoute ==
    (Returned /\ HasSections) =>
        /\ Cardinality(DOMAIN DocsMetadata.permalinkToSidebar) = Len(added[1].routes)
        /\ \A p \in DOMAIN DocsMetadata.permalinkToSidebar :
              DocsMetadata.permalinkToSidebar[p] = "sidebar"

\* C4, amended: when contentLoaded has returned, the lookup in the aggregate
\* file has one entry per distinct sub-route path: its keys are the paths of
\* the sub-routes, each maps to "sidebar", and it has as many entries as there
\* are sub-routes when (and only when) no two sub-routes share a path.
C4_OneEntryPerPath ==
    (Returned /\ HasSections) =>
        LET lookup == DocsMetadata.permalinkToSidebar
            subRoutes == added[1].routes
        IN  /\ DOMAIN lookup = {subRoutes[i].path : i \in DOMAIN subRoutes}
            /\ \A p \in DOMAIN lookup : lookup[p] = "sidebar"
            /\ (Cardinality(DOMAIN lookup) = Len(subRoutes)) <=>
                   (\A i, j \in DOMAIN subRoutes :
                        subRoutes[i].path = subRoutes[j].path => i = j)

C4_Witness ==
    /\ pc = "contentDone"
    /\ HasSections
    /\ Len(added) = 1
    /\ Len(added[1].routes) = 2
    /\ added[1].routes[1].path = added[1].routes[2].path
    /\ Cardinality(DOMAIN DocsMetadata.permalinkToSidebar) = 1

\* C5: once loadContent has returned with the spec path unset or naming a
\* missing file, the content is null and the parser was not called; and
\* contentLoaded then returns with no createData call, no addRoute call and no
\* file written.
C5_NoSpecFile ==
    (pc # "start" /\ (openapiPath = "" \/ ~fileExists)) =>
        /\ pc \in {"loaded", "contentDone", "routesDone"}
        /\ content = Null
        /\ parserCalls = 0
        /\ createDataCalls = 0
        /\ added = <<>>
        /\ files = <<>>
        /\ aggregate = Null

C5_Witness ==
    /\ pc = "contentDone"
    /\ openapiPath # ""
    /\ ~fileExists
    /\ content = Null

\* C6: on a parsed result with zero sections contentLoaded returns with no
\* createData call and no addRoute call: no file is written, no route registered.
C6_ZeroSections ==
    (content # Null /\ Len(content.openapiData) = 0) =>
        /\ pc \in {"loaded", "contentDone", "routesDone"}
        /\ createDataCalls = 0
        /\ added = <<>>
        /\ files = <<>>
        /\ aggregate = Null

C6_Witness ==
    /\ pc = "contentDone"
    /\ content # Null
    /\ Len(content.openapiData) = 0
    /\ parserCalls = 1

\* C7: the aggregate createData call is made only once every item's two files
\* are written and its promise fulfilled, and addRoute is called only once the
\* aggregate file is written.
C7_AggregateAfterItems ==
    /\ aggregate # Null =>
          /\ Len(task) = Len(Items)
          /\ \A i \in DOMAIN task :
                /\ task[i] = "done"
                /\ dataPath(JsonName(Items[i])) \in DOMAIN files
                /\ dataPath(MarkdownName(Items[i])) \in DOMAIN files
    /\ added # <<>> =>
          /\ aggregate # Null
          /\ aggregate.state = "written"
          /\ added[1].modules.docsMetadata \in DOMAIN files
          /\ files[added[1].modules.docsMetadata] = aggregate.text

C7_Witness ==
    /\ added # <<>>
    /\ completed = <<2, 1>>
    /\ aggregate.state = "written"

ItemFailed == \E i \in DOMAIN task : task[i] \in {"jsonFailed", "mdFailed"}
AggregateFailed == aggregate # Null /\ aggregate.state = "failed"

\* C8: once a createData call of contentLoaded has failed, contentLoaded has
\* failed, addRoute is not called and the aggregate file is not written (after
\* an item's failure the aggregate createData call is not even made); no call
\* is made again: every item has made one call, a second one only if its first
\* succeeded, and the aggregate call is made at most once.
C8_FailurePropagates ==
    (ItemFailed \/ AggregateFailed) =>
        /\ pc = "failed"
        /\ added = <<>>
        /\ ItemFailed => aggregate = Null
        /\ dataPath(docsBaseMetadataName) \notin DOMAIN files
        /\ createDataCalls =
               Len(task)
               + Cardinality({i \in DOMAIN task : task[i] \in {"md", "done", "mdFailed"}})
               + (IF aggregate = Null THEN 0 ELSE 1)

C8_Witness ==
    /\ pc = "failed"
    /\ \E i, j \in DOMAIN task : task[i] = "mdFailed" /\ task[j] = "done"
    /\ files # <<>>

\* C9: routesLoaded keeps the list's length, empties at most one slot, only
\* when more than one route was at the home base path, and only a slot whose
\* route was at that path: every route at another path is as it was.
C9_OnlyHomeCollision ==
    pc = "routesDone" =>
        LET changed == {i \in DOMAIN routesBefore : routes[i] # routesBefore[i]}
        IN  /\ DOMAIN routes = DOMAIN routesBefore
            /\ Cardinality(changed) <= 1
            /\ changed # {} => Cardinality(AtHome(routesBefore)) > 1
            /\ \A i \in changed : routes[i] = Hole
            /\ \A i \in DOMAIN routesBefore :
                  routesBefore[i].path # homePageDocsRoutePath => routes[i] = routesBefore[i]

C9_Witness ==
    /\ pc = "routesDone"
    /\ \E i \in DOMAIN routes : routes[i] = Hole
    /\ \E i \in DOMAIN routesBefore :
          /\ routesBefore[i].path # homePageDocsRoutePath
          /\ routesBefore[i].component = apiLayoutComponent
          /\ \A j \in DOMAIN routes : routes[j] = Hole => i < j

\* C10: the sub-routes passed to addRoute are the items' routes in input order
\* (sections in order, items in order within a section), whatever the order in
\* which the items' promises fulfilled: the sequence is a function of the content.
C10_RoutesInInputOrder ==
    added # <<>> =>
        LET openapiData == content.openapiData
            subRoutes == added[1].routes
        IN  /\ Len(subRoutes) =
                   SumSeq([s \in 1..Len(openapiData) |-> Len(openapiData[s].items)])
            /\ \A s \in 1..Len(openapiData) : \A k \in 1..Len(openapiData[s].items) :
                  LET route == subRoutes[Position(openapiData, s, k)]
                      item == openapiData[s].items[k]
                  IN  /\ route.path = item.permalink
                      /\ route.modules.openapi = dataPath(JsonName(item))
                      /\ route.modules.content.path = dataPath(MarkdownName(item))

C10_Witness ==
    /\ added # <<>>
    /\ completed = <<2, 1>>
    /\ added[1].routes[1].path # added[1].routes[2].path
====
